---- MODULE Spec2Model ----
(***************************************************************************)
(* Model of the download job orchestrator of backend/main.py: the job      *)
(* store (table downloads), the registry ACTIVE_DOWNLOADS, the runs        *)
(* (run_download tasks with their worker thread inside the external        *)
(* engine), the files under downloads/ and the HTTP control requests.      *)
(*                                                                         *)
(* Execution contexts.  The request handlers and the parts of run_download *)
(* outside the executor run on the single asyncio event loop and contain   *)
(* no await between their reads and writes, so each is one action.  The    *)
(* engine call YoutubeDL.download runs on a worker thread; each call of    *)
(* the progress hook is one action (the only shared data it reads are the  *)
(* two events of its own run, and the requests only ever set them).        *)
(*                                                                         *)
(* A task created by asyncio.create_task begins its body at a later turn   *)
(* of the loop, so a request already scheduled can be handled between the  *)
(* creation of a run and its registration: run_download_start is a step of *)
(* its own.  Likewise the coroutine resumes at a later turn than the one   *)
(* in which the worker ends the engine call: run_download_exit.            *)
(*                                                                         *)
(* The engine is external: it may report any ticks in any order, write     *)
(* its files under outtmpl, return or raise at any time.                   *)
(*                                                                         *)
(* The three parts of the program share no data and are specified apart:   *)
(* Spec (FairSpec with the scheduling) has the download jobs, with         *)
(* published holding the payload a step hands to broadcast; FeedSpec has   *)
(* broadcast and the WebSocket connections; MetaSpec has GET /meta and     *)
(* its cache.  ShareSpec has several jobs under one downloads/ directory,  *)
(* with artifacts recording which job's runs wrote each file.              *)
(*                                                                         *)
(* Not modelled here: DELETE /download, GET /file, and file names whose    *)
(* sanitized form is empty (the time-stamped default).                     *)
(***************************************************************************)
EXTENDS Integers, Sequences, FiniteSets, TLC

\* ---------------------------------------------------------------- bounds
\* Rows the store may hold, and run_download tasks alive at one time.
MaxJobs == 1
MaxRuns == 2
\* GET /meta requests made, and the last reading of the clock (seconds).
MaxCalls == 3
MaxTime == 360
\* WebSocket connections accepted, and calls of broadcast made.
MaxObservers == 2
MaxCasts == 2
\* Rows the store may hold where the jobs' files are told apart.
MaxSharing == 2

\* ------------------------------------------------------------ input sets
\* Job ids a control request may name; an id has no row until the store
\* hands it out.
JobIds == 1 .. MaxJobs

\* Request bodies of POST /download.  url after strip(): "" is missing,
\* "blob:" stands for any url starting with blob:.  filename as a sequence
\* of characters.  quality with "" for a missing or empty value.
Body(url, filename, quality) ==
  [ url |-> url, filename |-> filename, quality |-> quality ]

Bodies ==
  { Body("", << "a", "?", "1" >>, ""),
    Body("blob:", << "a", "?", "1" >>, ""),
    Body("https:", << "a", "?", "1" >>, ""),
    Body("https:", << "a", "[", "1", "]" >>, "q720") }

DEFAULT_QUALITY == "bestvideo+bestaudio/best"

\* Extensions the engine gives the files it writes from outtmpl
\* downloads/{safe}.%(ext)s: the partial file and the finished file.
PartExt == "mp4.part"
FinalExt == "mp4"

\* Values of the fields of a tick the engine hands to the hook; 0 is also a
\* missing field or None (the hook reads them with `or`).
Tick(status, downloaded, total, estimate) ==
  [ status |-> status, downloaded_bytes |-> downloaded,
    total_bytes |-> total, total_bytes_estimate |-> estimate ]

Ticks ==
  { Tick("downloading", 1, 2, 0), Tick("downloading", 1, 0, 2),
    Tick("downloading", 2, 0, 0), Tick("finished", 2, 2, 0) }

VARIABLES
  db,                \* table downloads: row id |-> row
  runs,              \* the run_download tasks alive: slot |-> task
  ACTIVE_DOWNLOADS,  \* job id |-> handle
  files,             \* names of the files under downloads/
  published          \* the payload the last step handed to broadcast, if any

VARIABLES
  now,               \* time.time(), in seconds
  _META_CACHE,       \* url |-> entry
  meta_calls         \* the get_meta requests made so far: call |-> request

VARIABLES
  WS_CLIENTS,        \* the connections broadcast sends to
  ws_state,          \* connection |-> where its ws_endpoint stands
  casts,             \* the calls of broadcast, in the order they were made
  delivered          \* connection |-> the payloads it has been sent

VARIABLES
  artifacts          \* the files under downloads/ with the jobs that wrote them

jobVars == << db, runs, ACTIVE_DOWNLOADS, files, published >>
metaVars == << now, _META_CACHE, meta_calls >>
feedVars == << WS_CLIENTS, ws_state, casts, delivered >>

\* What the steps of one part of the program leave alone.
notJobs == << metaVars, feedVars, artifacts >>
notMeta == << jobVars, feedVars, artifacts >>
notFeed == << jobVars, metaVars, artifacts >>
notArtifacts == << metaVars, feedVars >>

vars == << db, runs, ACTIVE_DOWNLOADS, files, published,
           now, _META_CACHE, meta_calls,
           WS_CLIENTS, ws_state, casts, delivered, artifacts >>

NoEvent == [ id |-> 0, kind |-> "none", progress |-> 0 ]

\* ------------------------------------------------------------- job store

\* The progress argument None of db_update (no progress is negative).
None == -1

\* db_insert: a new row with status queued and progress 0; the row id is
\* the AUTOINCREMENT key.
db_insert(filename) ==
  Append(db, [ filename |-> filename, status |-> "queued", progress |-> 0 ])

\* Faulty variant: progress=None resets the progress column.
db_update_resets(download_id, progress, status) ==
  IF download_id \notin DOMAIN db THEN db
  ELSE [ db EXCEPT ![download_id] =
           [ @ EXCEPT !.status = status,
                      !.progress = IF progress = None THEN 0 ELSE progress ] ]

\* db_update: UPDATE ... WHERE id=?; progress "None" leaves the column.
\* An id with no row updates nothing.  Progress is kept in units of 1/10000.
db_update(download_id, progress, status) ==
  IF download_id \notin DOMAIN db THEN db
  ELSE IF progress = None
    THEN [ db EXCEPT ![download_id] = [ @ EXCEPT !.status = status ] ]
    ELSE [ db EXCEPT ![download_id] =
             [ @ EXCEPT !.status = status, !.progress = progress ] ]

\* ------------------------------------------------------------ file names

StrippedChars == { "\\", "/", "<", ">", ":", "?", "\"", "|", " ", "*" }

RECURSIVE Filter(_)
Filter(name) ==
  IF name = << >> THEN << >>
  ELSE IF Head(name) \in StrippedChars THEN Filter(Tail(name))
  ELSE << Head(name) >> \o Filter(Tail(name))

\* sanitize_filename: drops the characters of StrippedChars (the blank is
\* one of them, so the later strip/split/join finds nothing to change).
sanitize_filename(name) == Filter(name)

\* Index of the "]" closing the class opened at pat[1] = "[", or 0 when the
\* bracket is never closed (fnmatch.translate: a "!" and then a "]" right
\* after the "[" belong to the class).
ClassEnd(pat) ==
  LET j0 == IF Len(pat) >= 2 /\ pat[2] = "!" THEN 3 ELSE 2
      j1 == IF Len(pat) >= j0 /\ pat[j0] = "]" THEN j0 + 1 ELSE j0
      closing == { k \in j1 .. Len(pat) : pat[k] = "]" }
  IN IF closing = {} THEN 0
     ELSE CHOOSE k \in closing : \A m \in closing : k <= m

\* Whether character c is in the class pat[1 .. e] = "[...]".
InClass(c, pat, e) ==
  LET neg == pat[2] = "!"
      first == IF neg THEN 3 ELSE 2
      members == { pat[k] : k \in first .. (e - 1) }
  IN IF neg THEN c \notin members ELSE c \in members

\* fnmatch on one path component, as glob.glob applies it to the names of
\* the directory: * any run, ? any one character, [seq] one character of
\* seq, anything else itself.
RECURSIVE fnmatch(_, _)
fnmatch(name, pat) ==
  IF pat = << >> THEN name = << >>
  ELSE IF Head(pat) = "*"
    THEN \/ fnmatch(name, Tail(pat))
         \/ name # << >> /\ fnmatch(Tail(name), pat)
  ELSE IF name = << >> THEN FALSE
  ELSE IF Head(pat) = "?" THEN fnmatch(Tail(name), Tail(pat))
  ELSE IF Head(pat) = "[" /\ ClassEnd(pat) > 0
    THEN /\ InClass(Head(name), pat, ClassEnd(pat))
         /\ fnmatch(Tail(name), SubSeq(pat, ClassEnd(pat) + 1, Len(pat)))
  ELSE Head(name) = Head(pat) /\ fnmatch(Tail(name), Tail(pat))

\* The file the engine writes for stem safe with extension ext.
FileName(safe, ext) == safe \o << ".", ext >>

\* glob.glob(f"downloads/{safe}.*")
glob(safe) == { f \in files : fnmatch(f, safe \o << ".", "*" >>) }

\* ------------------------------------------------------------------ runs

\* A run_download task.  pc: "created" (create_task done, body not begun),
\* "engine" (the worker thread is inside YoutubeDL.download), "raised" /
\* "returned" (the engine call has ended, the coroutine has not resumed),
\* a task that has left its finally block is no longer in runs.
\* cancel_at_return records whether cancel_event was set when the engine
\* call returned; nothing reads it but the properties.
NewRun(download_id, filename, quality, resume) ==
  [ job |-> download_id, filename |-> filename, quality |-> quality,
    resume |-> resume, pc |-> "created",
    pause_event |-> FALSE, cancel_event |-> FALSE, cancel_at_return |-> FALSE ]

\* asyncio.create_task(run_download(...)): the task takes a free slot.
FreeSlots == (1 .. MaxRuns) \ DOMAIN runs

create_task(run) ==
  LET slot == CHOOSE k \in FreeSlots : \A m \in FreeSlots : k <= m
  IN [ k \in DOMAIN runs \cup { slot } |-> IF k = slot THEN run ELSE runs[k] ]

\* The events of the handle; a handle whose task is gone sets nothing that
\* anybody reads.
set_event(handle, name) ==
  IF handle.run \notin DOMAIN runs THEN runs
  ELSE IF name = "pause_event"
    THEN [ runs EXCEPT ![handle.run].pause_event = TRUE ]
    ELSE [ runs EXCEPT ![handle.run].cancel_event = TRUE ]

\* round(float(downloaded) / float(total) * 100, 2) in hundredths of a
\* percent, which is also pct / 100 in units of 1/10000 (ties to even).
Pct(downloaded, total) ==
  LET n == downloaded * 10000
      q == n \div total
      rem == n % total
  IN IF 2 * rem > total \/ (2 * rem = total /\ q % 2 = 1) THEN q + 1 ELSE q

\* ---------------------------------------------------------- event loop

\* POST /download: a url that is empty or starts with blob: is refused
\* (400) before anything is written.
start_download(url, filename, quality) ==
  IF url = "" \/ url = "blob:"
  THEN /\ published' = NoEvent
       /\ UNCHANGED << db, runs, ACTIVE_DOWNLOADS, files >>
  ELSE /\ Len(db) < MaxJobs
       /\ FreeSlots # {}
       /\ db' = db_insert(filename)
       /\ runs' = create_task(
            NewRun(Len(db) + 1, filename,
                   IF quality = "" THEN DEFAULT_QUALITY ELSE quality, FALSE))
       /\ published' = NoEvent
       /\ UNCHANGED << ACTIVE_DOWNLOADS, files >>

\* ACTIVE_DOWNLOADS[download_id] = {...}: the handle of run r, holding the
\* two events of r, replaces any handle of the job.
register(r) ==
  [ j \in DOMAIN ACTIVE_DOWNLOADS \cup { runs[r].job } |->
      IF j = runs[r].job THEN [ run |-> r, quality |-> runs[r].quality ]
      ELSE ACTIVE_DOWNLOADS[j] ]

\* run_download up to the await: fresh events, the handle registered, the
\* engine call handed to the executor.
run_download_start(r) ==
  /\ runs[r].pc = "created"
  /\ ACTIVE_DOWNLOADS' = register(r)
  /\ runs' = [ runs EXCEPT ![r].pc = "engine" ]
  /\ published' = NoEvent
  /\ UNCHANGED << db, files >>

\* Who may be resumed: resume_download refuses every status but paused.
\* Faulty variant: a job still downloading may be resumed as well.
resumable_also_downloading(status) == status \in { "paused", "downloading" }

resumable(status) == status = "paused"

\* The branch the except block of run_download takes: cancel_event, then
\* pause_event, then a genuine failure.
outcome(r) ==
  IF runs[r].cancel_event THEN "cancelled"
  ELSE IF runs[r].pause_event THEN "paused"
  ELSE "error"

\* Faulty variant: the progress written with status paused is 0.
saved_pct_zero(download_id) == 0

\* saved_pct = (row[0] if row else 0), row being SELECT progress ... id=?
saved_pct(download_id) ==
  IF download_id \in DOMAIN db THEN db[download_id].progress ELSE 0

\* Faulty variant: the handle is dropped only when the engine call raised.
pop_on_error_only(r) ==
  IF runs[r].pc = "raised"
  THEN [ j \in DOMAIN ACTIVE_DOWNLOADS \ { runs[r].job } |-> ACTIVE_DOWNLOADS[j] ]
  ELSE ACTIVE_DOWNLOADS

\* Faulty variant: the handle of a run that ends paused is kept.
pop_unless_paused(r) ==
  IF runs[r].pc = "raised" /\ outcome(r) = "paused"
  THEN ACTIVE_DOWNLOADS
  ELSE [ j \in DOMAIN ACTIVE_DOWNLOADS \ { runs[r].job } |-> ACTIVE_DOWNLOADS[j] ]

\* finally: ACTIVE_DOWNLOADS.pop(download_id, None)
pop(r) ==
  [ j \in DOMAIN ACTIVE_DOWNLOADS \ { runs[r].job } |-> ACTIVE_DOWNLOADS[j] ]

\* run_download from the return of the await to the end: the except block
\* when the engine call raised, nothing when it returned, then finally.
run_download_exit(r) ==
  LET id == runs[r].job
      safe == sanitize_filename(runs[r].filename)
  IN
  /\ runs[r].pc \in { "raised", "returned" }
  /\ IF runs[r].pc = "returned"
     THEN /\ published' = NoEvent
          /\ UNCHANGED << db, files >>
     ELSE IF outcome(r) = "cancelled"
     THEN /\ files' = files \ glob(safe)
          /\ db' = db_update(id, 0, "cancelled")
          /\ published' = [ id |-> id, kind |-> "cancelled", progress |-> 0 ]
     ELSE IF outcome(r) = "paused"
     THEN /\ db' = db_update(id, saved_pct(id), "paused")
          /\ published' = [ id |-> id, kind |-> "paused", progress |-> 0 ]
          /\ UNCHANGED files
     ELSE /\ db' = db_update(id, 0, "error")
          /\ published' = [ id |-> id, kind |-> "error", progress |-> 0 ]
          /\ UNCHANGED files
  /\ ACTIVE_DOWNLOADS' = pop(r)
  /\ runs' = [ k \in DOMAIN runs \ { r } |-> runs[k] ]

\* What pause_download answers: 404 "Download not active" without a
\* handle, else status pausing.
pause_response(download_id) ==
  IF download_id \notin DOMAIN ACTIVE_DOWNLOADS THEN "NotActive" ELSE "pausing"

\* Faulty variant: the request itself writes status paused to the row.
pause_download_writes(download_id) ==
  /\ published' = NoEvent
  /\ UNCHANGED << ACTIVE_DOWNLOADS, files >>
  /\ db' = IF pause_response(download_id) = "NotActive" THEN db
           ELSE db_update(download_id, None, "paused")
  /\ runs' = IF pause_response(download_id) = "NotActive" THEN runs
             ELSE set_event(ACTIVE_DOWNLOADS[download_id], "pause_event")

\* POST /download/{download_id}/pause
pause_download(download_id) ==
  /\ published' = NoEvent
  /\ UNCHANGED << db, ACTIVE_DOWNLOADS, files >>
  /\ runs' = IF pause_response(download_id) = "NotActive" THEN runs
             ELSE set_event(ACTIVE_DOWNLOADS[download_id], "pause_event")

\* Faulty variant: the status of the row is not looked at.
resume_response_any_status(download_id) ==
  IF download_id \notin DOMAIN db THEN "NotFound" ELSE "resuming"

\* What resume_download answers: 404 "Download not found" when the row is
\* absent, 400 "Download is ..., not paused" when it may not be resumed,
\* else status resuming.
resume_response(download_id) ==
  IF download_id \notin DOMAIN db THEN "NotFound"
  ELSE IF ~ resumable(db[download_id].status) THEN "InvalidState"
  ELSE "resuming"

\* POST /download/{download_id}/resume
resume_download(download_id) ==
  IF resume_response(download_id) # "resuming"
  THEN /\ published' = NoEvent
       /\ UNCHANGED << db, runs, ACTIVE_DOWNLOADS, files >>
  ELSE LET quality == IF download_id \in DOMAIN ACTIVE_DOWNLOADS
                      THEN ACTIVE_DOWNLOADS[download_id].quality
                      ELSE DEFAULT_QUALITY
       IN
       /\ FreeSlots # {}
       /\ db' = db_update(download_id, None, "queued")
       /\ runs' = create_task(NewRun(download_id, db[download_id].filename, quality, TRUE))
       /\ published' = NoEvent
       /\ UNCHANGED << ACTIVE_DOWNLOADS, files >>

\* What cancel_download answers: status cancelling with a handle, status
\* cancelled without; it has no error answer.
cancel_response(download_id) ==
  IF download_id \in DOMAIN ACTIVE_DOWNLOADS THEN "cancelling" ELSE "cancelled"

\* POST /download/{download_id}/cancel
cancel_download(download_id) ==
  IF cancel_response(download_id) = "cancelling"
  THEN /\ runs' = set_event(ACTIVE_DOWNLOADS[download_id], "cancel_event")
       /\ published' = NoEvent
       /\ UNCHANGED << db, ACTIVE_DOWNLOADS, files >>
  ELSE /\ db' = db_update(download_id, 0, "cancelled")
       /\ published' = [ id |-> download_id, kind |-> "cancelled", progress |-> 0 ]
       /\ UNCHANGED << runs, ACTIVE_DOWNLOADS, files >>

\* -------------------------------------------------------- worker thread

\* The files the engine has under outtmpl when it reports tick d: the
\* partial file while downloading, the finished file in its place after.
engine_files(r, d) ==
  LET safe == sanitize_filename(runs[r].filename)
  IN IF d.status = "downloading"
     THEN files \cup { FileName(safe, PartExt) }
     ELSE (files \ { FileName(safe, PartExt) }) \cup { FileName(safe, FinalExt) }

\* One tick of the engine: it has written to its file and calls hook(d).
\* The hook raises DownloadCancelled when either event is set, which ends
\* the engine call; otherwise it hands the payload to broadcast and writes
\* the row.
hook(r, d) ==
  LET id == runs[r].job
      total == IF d.total_bytes # 0 THEN d.total_bytes
               ELSE IF d.total_bytes_estimate # 0 THEN d.total_bytes_estimate
               ELSE 1
      pct == Pct(d.downloaded_bytes, total)
  IN
  /\ runs[r].pc = "engine"
  /\ files' = engine_files(r, d)
  /\ IF runs[r].cancel_event \/ runs[r].pause_event
     THEN /\ runs' = [ runs EXCEPT ![r].pc = "raised" ]
          /\ published' = NoEvent
          /\ UNCHANGED db
     ELSE IF d.status = "downloading"
     THEN /\ published' = [ id |-> id, kind |-> "progress", progress |-> pct ]
          /\ db' = db_update(id, pct, "downloading")
          /\ UNCHANGED runs
     ELSE /\ published' = [ id |-> id, kind |-> "done", progress |-> 10000 ]
          /\ db' = db_update(id, 10000, "completed")
          /\ UNCHANGED runs
  /\ UNCHANGED ACTIVE_DOWNLOADS

\* YoutubeDL.download raises on its own (extraction or network failure).
engine_raise(r) ==
  /\ runs[r].pc = "engine"
  /\ runs' = [ runs EXCEPT ![r].pc = "raised" ]
  /\ published' = NoEvent
  /\ UNCHANGED << db, ACTIVE_DOWNLOADS, files >>

\* YoutubeDL.download returns.
engine_return(r) ==
  /\ runs[r].pc = "engine"
  /\ runs' = [ runs EXCEPT ![r].pc = "returned",
                           ![r].cancel_at_return = runs[r].cancel_event ]
  /\ published' = NoEvent
  /\ UNCHANGED << db, ACTIVE_DOWNLOADS, files >>

\* ------------------------------------------------------------- GET /meta

\* The url parameter of a request; "" is a missing url.
MetaUrls == { "", "u", "v" }

\* Entries expire after 5 minutes.
_META_CACHE_TTL == 300

\* timeout=30 of asyncio.wait_for around the extractor.
MetaTimeout == 30

\* A get_meta request: its url, the time of its first line, whether it
\* called the extractor, and pc: "waiting" (inside the await of the
\* executor) or "done" (answered).
MetaCall(url, start, invoked, pc) ==
  [ url |-> url, start |-> start, invoked |-> invoked, pc |-> pc ]

\* cached and (time.time() - cached["ts"]) < _META_CACHE_TTL
fresh(url) ==
  /\ url \in DOMAIN _META_CACHE
  /\ now - _META_CACHE[url].ts < _META_CACHE_TTL

\* _META_CACHE[url] = {"ts": time.time(), "data": result}
cache_put(url, result) ==
  [ u \in DOMAIN _META_CACHE \cup { url } |->
      IF u = url THEN [ ts |-> now, data |-> result ] ELSE _META_CACHE[u] ]

\* get_meta up to its await: 400 for a missing url, the cached data for
\* a fresh entry, else the extractor is handed to the executor.
get_meta_begin(url) ==
  /\ Len(meta_calls) < MaxCalls
  /\ IF url = "" THEN UNCHANGED meta_calls
     ELSE meta_calls' =
            Append(meta_calls,
                   IF fresh(url) THEN MetaCall(url, now, FALSE, "done")
                   ELSE MetaCall(url, now, TRUE, "waiting"))
  /\ UNCHANGED << now, _META_CACHE >>

\* get_meta after its await: the extractor's result (resolved, or its own
\* fallback) when it came within the timeout, the timeout result when the
\* 30 seconds are over; either is written to the cache with the time of
\* the write.
get_meta_end(c, result) ==
  /\ meta_calls[c].pc = "waiting"
  /\ IF now - meta_calls[c].start < MetaTimeout
     THEN result \in { "resolved", "fallback" }
     ELSE result = "timeout"
  /\ _META_CACHE' = cache_put(meta_calls[c].url, result)
  /\ meta_calls' = [ meta_calls EXCEPT ![c].pc = "done" ]
  /\ UNCHANGED now

\* Time passes; a request inside wait_for is resumed when its 30 seconds
\* are over, so the clock does not pass that point before it is.
advance(dt) ==
  /\ now + dt <= MaxTime
  /\ \A c \in DOMAIN meta_calls :
       meta_calls[c].pc = "waiting"
         => now + dt <= meta_calls[c].start + MetaTimeout
  /\ now' = now + dt
  /\ UNCHANGED << _META_CACHE, meta_calls >>

\* The metadata requests alone: no job is submitted.
MetaNext ==
  \/ \E url \in MetaUrls : get_meta_begin(url) /\ UNCHANGED notMeta
  \/ \E c \in DOMAIN meta_calls,
          result \in { "resolved", "fallback", "timeout" } :
       get_meta_end(c, result) /\ UNCHANGED notMeta
  \/ \E dt \in { MetaTimeout, _META_CACHE_TTL } : advance(dt) /\ UNCHANGED notMeta

\* ------------------------------------------------------------ event feed

\* A call of broadcast(payload); the payload is the number of the call,
\* so payloads are numbered in the order they were published.  pc:
\* "scheduled" (handed to the loop by run_coroutine_threadsafe, body not
\* begun), "sending" (inside await ws.send_text for connection cur),
\* "done" (returned), "failed" (left by an exception).  clients is
\* WS_CLIENTS as the for statement found it, visited the connections the
\* loop has taken so far, raises whether the send_text under way ends in
\* an exception, dead the list dead.
Cast(payload) ==
  [ payload |-> payload, pc |-> "scheduled", clients |-> {}, visited |-> {},
    cur |-> 0, raises |-> FALSE, dead |-> {} ]

\* The for statement of call t (record c, in the sequence seq) asks its
\* set iterator for the next connection and gets ws (0: the iterator is
\* exhausted).  A set whose size differs from the size at the start of the
\* loop makes the iterator raise RuntimeError, which nothing catches.  Over
\* an unchanged set the iterator yields every member once.  Over a set that
\* changed and has its old size again, the iterator walks the changed
\* table from where it stood: it may yield any member it has not yielded
\* or stop (the table of a set that never held five members is not
\* rebuilt, so no member comes twice).
\* send_text(ws) writes the frame to the connection at once when the
\* connection is open, and raises when it is not; the await ends later.
for_next(seq, t, c, ws) ==
  IF Cardinality(WS_CLIENTS) # Cardinality(c.clients)
  THEN /\ ws = 0
       /\ casts' = [ seq EXCEPT ![t] = [ c EXCEPT !.pc = "failed", !.cur = 0 ] ]
       /\ UNCHANGED << WS_CLIENTS, delivered >>
  ELSE IF ws = 0
  THEN /\ WS_CLIENTS = c.clients => c.clients \subseteq c.visited
       /\ casts' = [ seq EXCEPT ![t] = [ c EXCEPT !.pc = "done", !.cur = 0 ] ]
       /\ WS_CLIENTS' = WS_CLIENTS \ c.dead
       /\ UNCHANGED delivered
  ELSE /\ ws \in WS_CLIENTS \ c.visited
       /\ casts' = [ seq EXCEPT ![t] =
                      [ c EXCEPT !.pc = "sending", !.cur = ws,
                                 !.visited = @ \cup { ws },
                                 !.raises = ws_state[ws] # "open" ] ]
       /\ delivered' = IF ws_state[ws] = "open"
                       THEN [ delivered EXCEPT ![ws] = Append(@, c.payload) ]
                       ELSE delivered
       /\ UNCHANGED WS_CLIENTS

\* asyncio.run_coroutine_threadsafe(broadcast(payload), loop), in hook and
\* in the except block of run_download: the call begins at a later turn.
publish_threadsafe ==
  /\ Len(casts) < MaxCasts
  /\ casts' = Append(casts, Cast(Len(casts) + 1))
  /\ UNCHANGED << WS_CLIENTS, ws_state, delivered >>

\* await broadcast(payload) in cancel_download: the call begins at once.
publish_inline(ws) ==
  /\ Len(casts) < MaxCasts
  /\ for_next(Append(casts, Cast(Len(casts) + 1)), Len(casts) + 1,
              [ Cast(Len(casts) + 1) EXCEPT !.clients = WS_CLIENTS ], ws)
  /\ UNCHANGED ws_state

\* A scheduled call begins; the loop begins them in the order they were
\* scheduled.
broadcast_begin(t, ws) ==
  /\ casts[t].pc = "scheduled"
  /\ \A u \in 1 .. (t - 1) : casts[u].pc # "scheduled"
  /\ for_next(casts, t, [ casts[t] EXCEPT !.clients = WS_CLIENTS ], ws)
  /\ UNCHANGED ws_state

\* The await of send_text ends: except Exception: dead.append(ws), then
\* the for statement goes on.
broadcast_resume(t, ws) ==
  /\ casts[t].pc = "sending"
  /\ for_next(casts, t,
              [ casts[t] EXCEPT
                  !.dead = IF casts[t].raises THEN @ \cup { casts[t].cur }
                           ELSE @ ], ws)
  /\ UNCHANGED ws_state

\* ws_endpoint up to its first receive_text: accept, WS_CLIENTS.add(ws).
\* Every connection is a new object.
ws_endpoint_accept ==
  /\ Len(ws_state) < MaxObservers
  /\ ws_state' = Append(ws_state, "open")
  /\ WS_CLIENTS' = WS_CLIENTS \cup { Len(ws_state) + 1 }
  /\ delivered' = Append(delivered, << >>)
  /\ UNCHANGED casts

\* The client goes away: from now on send_text raises, and receive_text
\* will raise WebSocketDisconnect when ws_endpoint next runs.
client_close(ws) ==
  /\ ws_state[ws] = "open"
  /\ ws_state' = [ ws_state EXCEPT ![ws] = "broken" ]
  /\ UNCHANGED << WS_CLIENTS, casts, delivered >>

\* ws_endpoint from WebSocketDisconnect on: finally WS_CLIENTS.discard(ws)
ws_endpoint_exit(ws) ==
  /\ ws_state[ws] = "broken"
  /\ ws_state' = [ ws_state EXCEPT ![ws] = "closed" ]
  /\ WS_CLIENTS' = WS_CLIENTS \ { ws }
  /\ UNCHANGED << casts, delivered >>

\* The feed alone: the payloads stand for the events of one job.
FeedNext ==
  \/ publish_threadsafe /\ UNCHANGED notFeed
  \/ \E ws \in 0 .. MaxObservers : publish_inline(ws) /\ UNCHANGED notFeed
  \/ \E t \in DOMAIN casts, ws \in 0 .. MaxObservers :
       broadcast_begin(t, ws) /\ UNCHANGED notFeed
  \/ \E t \in DOMAIN casts, ws \in 0 .. MaxObservers :
       broadcast_resume(t, ws) /\ UNCHANGED notFeed
  \/ ws_endpoint_accept /\ UNCHANGED notFeed
  \/ \E ws \in DOMAIN ws_state : client_close(ws) /\ UNCHANGED notFeed
  \/ \E ws \in DOMAIN ws_state : ws_endpoint_exit(ws) /\ UNCHANGED notFeed

\* ------------------------------------------------- files of several jobs

\* POST /download while the store may hold MaxSharing rows.
start_download_sharing(url, filename, quality) ==
  IF url = "" \/ url = "blob:"
  THEN /\ published' = NoEvent
       /\ UNCHANGED << db, runs, ACTIVE_DOWNLOADS, files >>
  ELSE /\ Len(db) < MaxSharing
       /\ FreeSlots # {}
       /\ db' = db_insert(filename)
       /\ runs' = create_task(
            NewRun(Len(db) + 1, filename,
                   IF quality = "" THEN DEFAULT_QUALITY ELSE quality, FALSE))
       /\ published' = NoEvent
       /\ UNCHANGED << ACTIVE_DOWNLOADS, files >>

\* The file the engine of run r is writing when it reports tick d.
written(r, d) ==
  FileName(sanitize_filename(runs[r].filename),
           IF d.status = "downloading" THEN PartExt ELSE FinalExt)

\* The records of the files that are among fs.
kept(fs) == { a \in artifacts : a.file \in fs }

\* A tick of run r, with the file it writes recorded as an artifact of
\* the job of r.
hook_sharing(r, d) ==
  /\ hook(r, d)
  /\ artifacts' = kept(files') \cup
                    { [ job |-> runs[r].job, file |-> written(r, d) ] }

\* The end of run r, with the records of the files it unlinked dropped.
run_download_exit_sharing(r) ==
  /\ run_download_exit(r)
  /\ artifacts' = kept(files')

\* Several jobs under one downloads/ directory: submissions, their runs
\* and Cancel.
ShareNext ==
  \/ \E data \in Bodies :
       /\ start_download_sharing(data.url, data.filename, data.quality)
       /\ UNCHANGED << artifacts, notArtifacts >>
  \/ \E r \in DOMAIN runs :
       run_download_start(r) /\ UNCHANGED << artifacts, notArtifacts >>
  \/ \E r \in DOMAIN runs, d \in Ticks :
       hook_sharing(r, d) /\ UNCHANGED notArtifacts
  \/ \E r \in DOMAIN runs :
       engine_raise(r) /\ UNCHANGED << artifacts, notArtifacts >>
  \/ \E r \in DOMAIN runs :
       engine_return(r) /\ UNCHANGED << artifacts, notArtifacts >>
  \/ \E r \in DOMAIN runs :
       run_download_exit_sharing(r) /\ UNCHANGED notArtifacts
  \/ \E download_id \in 1 .. MaxSharing :
       cancel_download(download_id) /\ UNCHANGED << artifacts, notArtifacts >>

\* -------------------------------------------------------- specification

Init ==
  /\ db = << >>
  /\ runs = << >>
  /\ ACTIVE_DOWNLOADS = << >>
  /\ files = {}
  /\ published = NoEvent
  /\ now = 0
  /\ _META_CACHE = << >>
  /\ meta_calls = << >>
  /\ WS_CLIENTS = {}
  /\ ws_state = << >>
  /\ casts = << >>
  /\ delivered = << >>
  /\ artifacts = {}

\* The download jobs alone: no metadata request is made.
Next ==
  \/ \E data \in Bodies :
       start_download(data.url, data.filename, data.quality)
       /\ UNCHANGED notJobs
  \/ \E r \in DOMAIN runs : run_download_start(r) /\ UNCHANGED notJobs
  \/ \E r \in DOMAIN runs, d \in Ticks : hook(r, d) /\ UNCHANGED notJobs
  \/ \E r \in DOMAIN runs : engine_raise(r) /\ UNCHANGED notJobs
  \/ \E r \in DOMAIN runs : engine_return(r) /\ UNCHANGED notJobs
  \/ \E r \in DOMAIN runs : run_download_exit(r) /\ UNCHANGED notJobs
  \/ \E download_id \in JobIds :
       pause_download(download_id) /\ UNCHANGED notJobs
  \/ \E download_id \in JobIds :
       resume_download(download_id) /\ UNCHANGED notJobs
  \/ \E download_id \in JobIds :
       cancel_download(download_id) /\ UNCHANGED notJobs

Spec == Init /\ [][Next]_vars

MetaSpec == Init /\ [][MetaNext]_vars

FeedSpec == Init /\ [][FeedNext]_vars

ShareSpec == Init /\ [][ShareNext]_vars

\* The worker thread of run r takes its next step inside the engine call:
\* a tick, a failure or the return.
worker_step(r) ==
  \/ \E d \in Ticks : hook(r, d)
  \/ engine_raise(r)
  \/ engine_return(r)

\* Scheduling: the event loop runs every task that is ready (a created
\* task begins, a task whose await has ended resumes), and the executor
\* runs every worker thread, so an engine call goes on until it ends.  The
\* requests are the clients' choice and have no fairness.
Fairness ==
  \A r \in 1 .. MaxRuns :
    /\ WF_vars(r \in DOMAIN runs /\ run_download_start(r)
                 /\ UNCHANGED notJobs)
    /\ WF_vars(r \in DOMAIN runs /\ run_download_exit(r)
                 /\ UNCHANGED notJobs)
    /\ WF_vars(r \in DOMAIN runs /\ worker_step(r) /\ UNCHANGED notJobs)

FairSpec == Spec /\ Fairness

\* ------------------------------------------------------------ properties

\* "registered, not yet exited": the task has put its handle in the
\* registry and has not left its finally block.
Active(r) == runs[r].pc \in { "engine", "raised", "returned" }

RunsOf(j) == { r \in DOMAIN runs : runs[r].job = j }

\* The step is run r leaving run_download.
Exits(r) == r \in DOMAIN runs /\ runs[r].pc \in { "raised", "returned" }
            /\ r \notin DOMAIN runs'

Cancelled(id) == [ id |-> id, kind |-> "cancelled", progress |-> 0 ]
Paused(id) == [ id |-> id, kind |-> "paused", progress |-> 0 ]

\* The artifacts of a run of a job: the files the engine writes for it.
Artifacts(filename) ==
  { FileName(sanitize_filename(filename), ext) : ext \in { PartExt, FinalExt } }

\* The edges of the state machine of section 4.1.
Edges ==
  { << "queued", "downloading" >>, << "downloading", "completed" >>,
    << "downloading", "paused" >>, << "downloading", "cancelled" >>,
    << "downloading", "error" >>, << "paused", "queued" >>,
    << "queued", "cancelled" >> }

\* C1: every change of a job's persisted status follows an edge of the
\* state machine (queued->downloading, downloading->completed / paused /
\* cancelled / error, paused->queued, queued->cancelled).
C1_StatusEdges ==
  [][ \A j \in DOMAIN db :
        db'[j].status # db[j].status
          => << db[j].status, db'[j].status >> \in Edges ]_vars

\* The cancel signal of run r was set before its engine call ended: at
\* the return, or, for a call that raised, at the latest when the run
\* ends.
CancelBeforeEnd(r) ==
  \/ runs[r].pc = "returned" /\ runs[r].cancel_at_return
  \/ runs[r].pc = "raised" /\ runs[r].cancel_event

\* C2: a run whose cancel signal was set before its engine call ended
\* never leaves the row with status completed when it ends (the claim asks
\* for status cancelled; this is the half of it that excludes completed).
C2_CancelBeforeReturn ==
  [][ \A r \in DOMAIN runs :
        Exits(r) /\ CancelBeforeEnd(r)
          => db'[runs[r].job].status # "completed" ]_vars

\* C3: a row whose status is completed keeps that status in every later
\* step.
C3_CompletedIsFinal ==
  [][ \A j \in DOMAIN db :
        db[j].status = "completed" => db'[j].status = "completed" ]_vars

\* C4: no two active runs have the same job id.
C4_OneActiveRunPerJob ==
  \A r1 \in DOMAIN runs, r2 \in DOMAIN runs :
    Active(r1) /\ Active(r2) /\ runs[r1].job = runs[r2].job => r1 = r2

\* C4 witness: a second run of a job, started by Resume, is inside the
\* engine after the first run has exited.
C4_Witness ==
  \E r \in DOMAIN runs : runs[r].resume /\ runs[r].pc = "engine"

\* C5: the registry has an entry for job j only while a run of j is
\* active, and that entry is the handle of that run.
C5_HandleOnlyWhileActive ==
  \A j \in DOMAIN ACTIVE_DOWNLOADS :
    /\ ACTIVE_DOWNLOADS[j].run \in DOMAIN runs
    /\ runs[ACTIVE_DOWNLOADS[j].run].job = j
    /\ Active(ACTIVE_DOWNLOADS[j].run)

\* C5 witness: a run has ended after a normal return of the engine and the
\* registry holds nothing for its job.
C5_Witness ==
  \E j \in DOMAIN db :
    /\ db[j].status = "completed"
    /\ RunsOf(j) = {}
    /\ j \notin DOMAIN ACTIVE_DOWNLOADS

\* C6: a run whose engine call raised while cancel_event is set, with or
\* without pause_event, ends with the job's artifacts deleted, the row at
\* status cancelled and progress 0, and the cancelled event published.
C6_CancelOutcome ==
  [][ \A r \in DOMAIN runs :
        Exits(r) /\ runs[r].pc = "raised" /\ runs[r].cancel_event
          => /\ Artifacts(runs[r].filename) \cap files' = {}
             /\ db'[runs[r].job].status = "cancelled"
             /\ db'[runs[r].job].progress = 0
             /\ published' = Cancelled(runs[r].job) ]_vars

\* C7: a run whose engine call raised with pause_event set and cancel_event
\* not set ends with status paused, the progress the store held before,
\* every file kept, and the paused event published.
C7_PauseOutcome ==
  [][ \A r \in DOMAIN runs :
        Exits(r) /\ runs[r].pc = "raised"
        /\ runs[r].pause_event /\ ~ runs[r].cancel_event
          => /\ db'[runs[r].job].status = "paused"
             /\ db'[runs[r].job].progress = db[runs[r].job].progress
             /\ files' = files
             /\ published' = Paused(runs[r].job) ]_vars

\* C7 witness: a paused row with progress above 0, its partial file on
\* disk, the paused event just published.
C7_Witness ==
  \E j \in DOMAIN db :
    /\ db[j].status = "paused"
    /\ db[j].progress > 0
    /\ FileName(sanitize_filename(db[j].filename), PartExt) \in files
    /\ published = Paused(j)

\* C8: Cancel of a job without a handle answers cancelled, sets the row to
\* status cancelled and progress 0 and publishes the cancelled event in the
\* same step, and a cancelled row stays cancelled.
C8_CancelInactiveDurable ==
  [][ \A j \in DOMAIN db :
        /\ ( j \notin DOMAIN ACTIVE_DOWNLOADS /\ cancel_download(j)
               => /\ cancel_response(j) = "cancelled"
                  /\ db'[j].status = "cancelled"
                  /\ db'[j].progress = 0
                  /\ published' = Cancelled(j) )
        /\ ( db[j].status = "cancelled" => db'[j].status = "cancelled" ) ]_vars

\* C9: Resume of an id without a row answers NotFound, Resume of a row
\* whose status is not paused answers InvalidState, and neither changes the
\* store, the registry or the runs.
C9_ResumeRefused ==
  [][ \A j \in JobIds :
        ( j \notin DOMAIN db \/ db[j].status # "paused" )
          => /\ resume_response(j) =
                  IF j \notin DOMAIN db THEN "NotFound" ELSE "InvalidState"
             /\ ( resume_download(j)
                    => UNCHANGED << db, ACTIVE_DOWNLOADS, runs >> ) ]_vars

\* C9 witness: Resume is refused for a job that is downloading.
C9_Witness ==
  \E j \in DOMAIN db :
    /\ db[j].status = "downloading"
    /\ resume_response(j) = "InvalidState"

\* C10: Resume of a paused job sets its status to queued, keeps its
\* progress, and adds exactly one run of the job, with resume = TRUE and
\* both events unset; when that run registers its handle, the events of
\* the handle are still unset.
C10_ResumePaused ==
  [][ /\ \A j \in DOMAIN db :
           db[j].status = "paused" /\ resume_download(j)
             => /\ resume_response(j) = "resuming"
                /\ db'[j].status = "queued"
                /\ db'[j].progress = db[j].progress
                /\ \E k \in DOMAIN runs' \ DOMAIN runs :
                     /\ DOMAIN runs' = DOMAIN runs \cup { k }
                     /\ runs'[k].job = j
                     /\ runs'[k].resume
                     /\ runs'[k].pc = "created"
                     /\ ~ runs'[k].pause_event /\ ~ runs'[k].cancel_event
                /\ \A r \in DOMAIN runs : runs'[r] = runs[r]
      /\ \A r \in DOMAIN runs :
           runs[r].resume /\ run_download_start(r)
             => /\ ACTIVE_DOWNLOADS'[runs[r].job].run = r
                /\ ~ runs'[r].pause_event /\ ~ runs'[r].cancel_event ]_vars

\* C10 witness: a job resumed from paused is queued again with its earlier
\* progress, its new run not yet started.
C10_Witness ==
  \E r \in DOMAIN runs :
    /\ runs[r].resume /\ runs[r].pc = "created"
    /\ db[runs[r].job].status = "queued"
    /\ db[runs[r].job].progress > 0

\* C11: Pause of a job without a handle answers NotActive and changes
\* neither the store nor the registry (nor any run); Pause of a job with a
\* handle answers pausing and only sets the pause event of that handle:
\* the row, the registry, the files and every other field of every run
\* stay as they were.
C11_PauseOnlySetsFlag ==
  [][ \A j \in JobIds :
        /\ ( j \notin DOMAIN ACTIVE_DOWNLOADS
               => /\ pause_response(j) = "NotActive"
                  /\ ( pause_download(j)
                         => UNCHANGED << db, ACTIVE_DOWNLOADS, runs, files >> ) )
        /\ ( j \in DOMAIN ACTIVE_DOWNLOADS
               => /\ pause_response(j) = "pausing"
                  /\ ( pause_download(j)
                         => /\ UNCHANGED << db, ACTIVE_DOWNLOADS, files >>
                            /\ DOMAIN runs' = DOMAIN runs
                            /\ \A k \in DOMAIN runs :
                                 IF k = ACTIVE_DOWNLOADS[j].run
                                 THEN /\ runs'[k].pause_event
                                      /\ runs'[k] = [ runs[k] EXCEPT
                                                        !.pause_event = TRUE ]
                                 ELSE runs'[k] = runs[k] ) ) ]_vars

\* C11 witness: Pause has been acknowledged for a run inside the engine
\* and the row still says downloading.
C11_Witness ==
  \E r \in DOMAIN runs :
    /\ runs[r].pc = "engine"
    /\ runs[r].pause_event /\ ~ runs[r].cancel_event
    /\ db[runs[r].job].status = "downloading"

\* An active run of job j has its pause event set and its cancel event
\* not set: Pause was acknowledged and no Cancel has reached the run.
PauseAcknowledged(j) ==
  \E r \in RunsOf(j) :
    Active(r) /\ runs[r].pause_event /\ ~ runs[r].cancel_event

\* A Cancel of job j has been issued: it set the cancel event of a run of
\* j, or, without a handle, wrote status cancelled.
CancelIssued(j) ==
  \/ \E r \in RunsOf(j) : runs[r].cancel_event
  \/ j \in DOMAIN db /\ db[j].status = "cancelled"

\* C12: whenever Pause has been acknowledged for an active run of job j,
\* then, unless a Cancel is issued, the row of j eventually has status
\* paused with the paused event published.
C12_PauseLeadsToPaused ==
  \A j \in JobIds :
    PauseAcknowledged(j)
      ~> ( \/ ( j \in DOMAIN db /\ db[j].status = "paused"
                /\ published = Paused(j) )
           \/ CancelIssued(j) )

\* C13: within one run, a progress event handed to the feed right after
\* another progress event of the same job carries a progress that is not
\* smaller.  (Two ticks in consecutive steps belong to one run: a second
\* run of the job needs an exit and a Resume in between.)
C13_FeedProgressMonotone ==
  [][ published.kind = "progress" /\ published'.kind = "progress"
      /\ published'.id = published.id
        => published'.progress >= published.progress ]_vars

\* C14: in every reachable state the persisted progress of every job is
\* within [0, 1] (0 .. 10000 in units of 1/10000).
C14_ProgressInUnitInterval ==
  \A j \in DOMAIN db : db[j].progress >= 0 /\ db[j].progress <= 10000

\* C15: of any two GET /meta requests for one url whose start times are
\* less than the TTL apart, at most one has called the extractor, also
\* when the later one starts while the earlier one is still waiting; and a
\* request that starts when the url has no entry, or one of at least the
\* TTL of age, calls the extractor.
C15_ExtractorOncePerWindow ==
  [][ /\ \A a \in DOMAIN meta_calls', b \in DOMAIN meta_calls' :
           /\ a < b
           /\ meta_calls'[a].url = meta_calls'[b].url
           /\ meta_calls'[b].start - meta_calls'[a].start < _META_CACHE_TTL
           => ~ ( meta_calls'[a].invoked /\ meta_calls'[b].invoked )
      /\ \A url \in MetaUrls \ { "" } :
           /\ get_meta_begin(url)
           /\ ( url \notin DOMAIN _META_CACHE
                  \/ now - _META_CACHE[url].ts >= _META_CACHE_TTL )
           => meta_calls'[Len(meta_calls')].invoked ]_vars

\* The call of broadcast t ends in this step.
Finishes(t) ==
  /\ casts'[t].pc \in { "done", "failed" }
  /\ t \in DOMAIN casts => casts[t].pc \in { "scheduled", "sending" }

\* C16: when a call of broadcast ends, no connection whose send raised is
\* in WS_CLIENTS, and every connection that was in WS_CLIENTS when the
\* call began, is still there and still open, and whose send did not
\* raise, has been sent the payload.
C16_PublishPrunesAndDelivers ==
  [][ \A t \in DOMAIN casts' :
        Finishes(t)
          => /\ casts'[t].dead \cap WS_CLIENTS' = {}
             /\ \A ws \in casts'[t].clients \cap WS_CLIENTS' :
                  ws_state'[ws] = "open" /\ ws \notin casts'[t].dead
                    => \E i \in DOMAIN delivered'[ws] :
                         delivered'[ws][i] = casts'[t].payload ]_vars

\* C17: every connection is sent the payloads in the order in which they
\* were published.
C17_DeliveryInPublishOrder ==
  \A ws \in DOMAIN delivered :
    \A i \in DOMAIN delivered[ws], k \in DOMAIN delivered[ws] :
      i < k => delivered[ws][i] < delivered[ws][k]

\* C18: a run whose engine call returned with neither event set and
\* without a finished tick leaves the row with status completed and
\* progress 1.  (Stated for a run that reported no tick at all: its row is
\* still queued, and only a tick of the run could have changed that.)
C18_ReturnMeansCompleted ==
  [][ \A r \in DOMAIN runs :
        /\ Exits(r) /\ runs[r].pc = "returned"
        /\ ~ runs[r].cancel_event /\ ~ runs[r].pause_event
        /\ db[runs[r].job].status = "queued"
        => /\ db'[runs[r].job].status = "completed"
           /\ db'[runs[r].job].progress = 10000 ]_vars

\* C19: a job whose row has status paused has no handle in the registry,
\* and every run started by Resume has the default quality selector,
\* whatever selector the job was submitted with.
C19_PausedHasNoHandle ==
  /\ \A j \in DOMAIN db :
       db[j].status = "paused" => j \notin DOMAIN ACTIVE_DOWNLOADS
  /\ \A r \in DOMAIN runs :
       runs[r].resume => runs[r].quality = DEFAULT_QUALITY

\* C19 witness: a job submitted with selector q720 has been paused and
\* resumed, and its new run has the default selector.
C19_Witness ==
  \E r \in DOMAIN runs :
    /\ runs[r].resume
    /\ runs[r].filename = << "a", "[", "1", "]" >>
    /\ runs[r].quality = DEFAULT_QUALITY
    /\ runs[r].job \notin DOMAIN ACTIVE_DOWNLOADS

\* C20: a job whose row has status downloading has an active run and a
\* handle in the registry.
C20_DownloadingHasActiveRun ==
  \A j \in DOMAIN db :
    db[j].status = "downloading"
      => /\ j \in DOMAIN ACTIVE_DOWNLOADS
         /\ \E r \in RunsOf(j) : Active(r)

\* C21: the cancel path of a run of job j unlinks only files that runs of
\* j wrote: no file that a run of another job k wrote (its partial or its
\* finished file), k submitted with the same file name or another, is
\* gone from downloads/ after the step.
C21_CancelRemovesOwnArtifactsOnly ==
  [][ \A r \in DOMAIN runs :
        ( /\ runs[r].pc = "raised"
          /\ outcome(r) = "cancelled"
          /\ r \notin DOMAIN runs' )
        => \A a \in artifacts :
             a.file \notin files' => a.job = runs[r].job ]_vars
====
